---- MODULE Spec2Model ----
(***************************************************************************)
(* XClamAV: the settings store (XClamAVSettings), the quarantine manager   *)
(* (QuarantineManager) and the scanner process wrapper (ClamAVWrapper).    *)
(*                                                                         *)
(* The specifications share the module's variables; each one drives one   *)
(* component and leaves the variables of the others at their initial       *)
(* values:                                                                 *)
(*   SpecSettings   load / merge / set / save of settings.json             *)
(*   SpecStore      the same with get(category) and get(category, key)     *)
(*   SpecQuarantine quarantine / list / restore / delete / retention sweep *)
(*   SpecSameName   the same on two files of one name in two directories   *)
(*   SpecScan       scan_path / stop_scan / the run_scan worker threads,   *)
(*                  update_database and its worker                         *)
(*   SpecCommand    build_scan_command on the stored scan options          *)
(***************************************************************************)
EXTENDS Integers, Sequences, FiniteSets, TLC

VARIABLES
    \* ---- settings store (settings.py, XClamAVSettings) ----
    file,              \* content of ~/.config/xclamav/settings.json
    settings,          \* self.settings
    default_settings,  \* self.default_settings
    shared,            \* categories whose dict object is one and the same
                       \* object in self.settings and self.default_settings
    sets_done,         \* number of set() calls made so far (bounded)
    last,              \* the last settings-store call and its outcome
    \* ---- quarantine manager (settings.py, QuarantineManager) ----
    fs,                \* the file system: path -> file, for the files that exist
    now,               \* the wall clock, in ticks
    entries,           \* every quarantine_file call that returned True so far
    qops,              \* number of quarantine-manager calls made so far (bounded)
    qlast,             \* the last quarantine-manager call, its outcome and
                       \* the file system it started from
    \* ---- scanner wrapper (xclamav.py, ClamAVWrapper) ----
    scanning,          \* self.scanning
    scan_process,      \* self.scan_process: 0 is None, n > 0 the child of scan n
    th,                \* the run_scan worker threads, by scan number
    proc,              \* the clamscan child processes, by scan number
    ui,                \* the UI thread: where it is in stop_scan, its call
                       \* counters and the outcome of its last call
    dispatched,        \* the callbacks each worker handed to GLib.idle_add,
                       \* in the order it queued them
    scan_options,      \* self.scan_options
    wlast,             \* the last build_scan_command call and the list it
                       \* returned
    upd,               \* update_database: the run_update worker thread, its
                       \* freshclam child and the callback it handed to
                       \* GLib.idle_add
    \* ---- main window and settings dialog (xclamav.py, settings.py) ----
    dlg                \* the settings dialog: whether it is open, its
                       \* controls, what the store, the file and the wrapper
                       \* held when it opened, whether the wrapper's options
                       \* are the store's own dict, and the last response

settingsVars == <<file, settings, default_settings, shared, sets_done, last>>
quarantineVars == <<fs, now, entries, qops, qlast>>
scanVars == <<scanning, scan_process, th, proc, ui, dispatched, scan_options, wlast, upd, dlg>>

vars == <<file, settings, default_settings, shared, sets_done, last,
          fs, now, entries, qops, qlast,
          scanning, scan_process, th, proc, ui, dispatched, scan_options, wlast, upd,
          dlg>>

(***************************************************************************)
(* Bounds                                                                  *)
(***************************************************************************)
MaxSets == 2

(***************************************************************************)
(* Python values and JSON values.                                          *)
(* A Python value is a record [k, s, d]: k is the Python type, s the repr  *)
(* of a non-dict value, d the key -> value function of a dict.             *)
(* A JSON value has the same shape with the JSON kinds: "object",          *)
(* "array", "string", "number", "literal" (true / false / null).           *)
(***************************************************************************)
Leaf(k, s) == [k |-> k, s |-> s, d |-> <<>>]
Dict(f) == [k |-> "dict", s |-> "", d |-> f]
EmptyDict == Dict(<<>>)

PyTrue == Leaf("bool", "True")
PyFalse == Leaf("bool", "False")
PyNone == Leaf("NoneType", "None")
PyInt(s) == Leaf("int", s)
PyStr(s) == Leaf("str", s)
PyList(s) == Leaf("list", s)

JObject(f) == [k |-> "object", s |-> "", d |-> f]
JLit(s) == [k |-> "literal", s |-> s, d |-> <<>>]
JNum(s) == [k |-> "number", s |-> s, d |-> <<>>]
JStr(s) == [k |-> "string", s |-> s, d |-> <<>>]
JArr(s) == [k |-> "array", s |-> s, d |-> <<>>]

\* json.dump: dict -> object, True/False/None -> true/false/null,
\* int -> number, str -> string, list -> array.
RECURSIVE json_dump(_)
json_dump(v) ==
    CASE v.k = "dict" -> JObject([key \in DOMAIN v.d |-> json_dump(v.d[key])])
      [] v.k = "bool" -> JLit(IF v.s = "True" THEN "true" ELSE "false")
      [] v.k = "NoneType" -> JLit("null")
      [] v.k = "int" -> JNum(v.s)
      [] v.k = "str" -> JStr(v.s)
      [] v.k = "list" -> JArr(v.s)

\* json.load: the inverse conversion on a document that parses.
RECURSIVE json_load(_)
json_load(j) ==
    CASE j.k = "object" -> Dict([key \in DOMAIN j.d |-> json_load(j.d[key])])
      [] j.k = "literal" ->
            IF j.s = "true" THEN PyTrue ELSE IF j.s = "false" THEN PyFalse ELSE PyNone
      [] j.k = "number" -> PyInt(j.s)
      [] j.k = "string" -> PyStr(j.s)
      [] j.k = "array" -> PyList(j.s)

(***************************************************************************)
(* The settings file: st is "missing" (no file), "unreadable" (open()      *)
(* raises), "garbage" (json.load raises) or "json" (doc is the document).  *)
(***************************************************************************)
FileOf(st, doc) == [st |-> st, doc |-> doc]
JsonFile(doc) == FileOf("json", doc)
NoDoc == JLit("null")

(***************************************************************************)
(* The hard-coded default mapping (load_settings).                         *)
(***************************************************************************)
DefaultSettings ==
    Dict(
      "scan_options" :> Dict(
          "scan_archives" :> PyTrue @@ "scan_pdf" :> PyTrue @@
          "scan_ole2" :> PyTrue @@ "scan_html" :> PyTrue @@
          "scan_pe" :> PyTrue @@ "scan_elf" :> PyTrue @@
          "detect_pua" :> PyFalse @@ "scan_hidden" :> PyFalse @@
          "max_file_size" :> PyInt("20") @@ "max_recursion" :> PyInt("15"))
      @@ "real_time" :> Dict(
          "enabled" :> PyFalse @@ "watch_downloads" :> PyTrue @@
          "watch_home" :> PyFalse @@ "watch_removable" :> PyTrue @@
          "prevention_mode" :> PyFalse)
      @@ "updates" :> Dict(
          "auto_update" :> PyTrue @@ "update_frequency" :> PyStr("daily") @@
          "check_on_startup" :> PyTrue)
      @@ "notifications" :> Dict(
          "show_scan_complete" :> PyTrue @@ "show_threats_found" :> PyTrue @@
          "show_update_complete" :> PyFalse @@ "system_tray" :> PyTrue)
      @@ "quarantine" :> Dict(
          "auto_quarantine" :> PyTrue @@
          "quarantine_path" :> PyStr("~/.local/share/xclamav/quarantine") @@
          "retention_days" :> PyInt("30"))
      @@ "interface" :> Dict(
          "start_minimized" :> PyFalse @@ "close_to_tray" :> PyTrue @@
          "dark_mode" :> PyStr("auto") @@ "language" :> PyStr("auto"))
      @@ "exclusions" :> Dict(
          "paths" :> PyList("[]") @@ "extensions" :> PyList("['.tmp', '.log']") @@
          "processes" :> PyList("[]"))
      @@ "advanced" :> Dict(
          "scan_threads" :> PyInt("4") @@ "memory_limit" :> PyInt("512") @@
          "database_mirror" :> PyStr("auto") @@ "log_level" :> PyStr("info")))

(***************************************************************************)
(* _merge_settings(default, loaded): result = default.copy(), then every   *)
(* key of loaded either recurses (both sides dicts) or overwrites.         *)
(***************************************************************************)
\* A merge that keeps only the keys the default mapping has.
_merge_settings_KnownKeysOnly(default, loaded) ==
    Dict([key \in DOMAIN default.d |->
            IF key \in DOMAIN loaded.d THEN loaded.d[key] ELSE default.d[key]])

RECURSIVE _merge_settings(_, _)
_merge_settings(default, loaded) ==
    Dict([key \in DOMAIN default.d \cup DOMAIN loaded.d |->
            IF key \notin DOMAIN loaded.d
            THEN default.d[key]
            ELSE IF /\ key \in DOMAIN default.d
                    /\ default.d[key].k = "dict"
                    /\ loaded.d[key].k = "dict"
                 THEN _merge_settings(default.d[key], loaded.d[key])
                 ELSE loaded.d[key]])

\* The try-block of load_settings succeeds: the file opens, parses, and
\* loaded.items() exists (loaded is a dict).
LoadSucceeds(f) == f.st = "json" /\ f.doc.k = "object"

\* A load that takes a parsed non-mapping document as the settings.
load_settings_KeepsNonMapping(f) ==
    IF f.st = "json"
    THEN IF f.doc.k = "object"
         THEN _merge_settings(DefaultSettings, json_load(f.doc))
         ELSE json_load(f.doc)
    ELSE DefaultSettings

\* self.settings after load_settings on file f.
load_settings(f) ==
    IF LoadSucceeds(f)
    THEN _merge_settings(DefaultSettings, json_load(f.doc))
    ELSE DefaultSettings      \* self.default_settings.copy()

\* Categories that load_settings leaves as the very same dict object in
\* self.settings and self.default_settings: dict.copy() is shallow, and
\* _merge_settings builds a new dict only for the keys the file has.
load_shared(f) ==
    IF LoadSucceeds(f)
    THEN DOMAIN DefaultSettings.d \ DOMAIN f.doc.d
    ELSE DOMAIN DefaultSettings.d

(***************************************************************************)
(* get(category, key=None): the outcome is [raised, val].                  *)
(***************************************************************************)
Returned(v) == [raised |-> FALSE, val |-> v]
Raised == [raised |-> TRUE, val |-> PyNone]

get_category(st, category) ==
    IF category \in DOMAIN st.d THEN st.d[category] ELSE EmptyDict

get(st, category, key) ==
    LET c == get_category(st, category) IN
    IF c.k # "dict" THEN Raised           \* AttributeError: no attribute 'get'
    ELSE IF key \in DOMAIN c.d THEN Returned(c.d[key]) ELSE Returned(PyNone)

(***************************************************************************)
(* save_settings: json.dump of the whole self.settings into the file.      *)
(***************************************************************************)
save_settings(st) == JsonFile(json_dump(st))

\* The ways the write in save_settings can go: "none" (written), "open"
\* (open(config_file, 'w') raises: the file is as it was), "write" (the file
\* was opened, hence truncated, and json.dump raises: what is left does not
\* parse).  The except clause prints the error and save_settings returns.
WriteFailures == {"open", "write"}

save_settings_Retried(f, st, fail) == save_settings(st)

save_settings_to(f, st, fail) ==
    IF fail = "none" THEN save_settings(st)
    ELSE IF fail = "open" THEN f
    ELSE FileOf("garbage", NoDoc)

\* dict item assignment d[key] = value
SetItem(dct, key, value) ==
    Dict([x \in DOMAIN dct.d \cup {key} |-> IF x = key THEN value ELSE dct.d[x]])

(***************************************************************************)
(* Inputs                                                                  *)
(***************************************************************************)
Categories == {"scan_options", "quarantine", "plugins"}
Keys == {"scan_pdf", "retention_days", "custom"}
Values == {PyFalse, PyInt("7"), PyStr("weekly")}

InitialFiles ==
    { FileOf("missing", NoDoc),
      FileOf("unreadable", NoDoc),
      FileOf("garbage", NoDoc),
      JsonFile(JArr("[1, 2]")),
      JsonFile(JNum("3")),
      JsonFile(JObject(<<>>)),
      JsonFile(JObject("scan_options" :> JObject("scan_pdf" :> JLit("false")))),
      JsonFile(JObject("scan_options" :> JObject("custom" :> JStr("x"))
                       @@ "plugins" :> JObject("custom" :> JNum("1")))),
      JsonFile(JObject("scan_options" :> JNum("5"))),
      JsonFile(JObject("quarantine" :> JLit("null")
                       @@ "scan_options" :> JObject("scan_pdf" :> JLit("false")))) }

NoCall == [op |-> "none", cat |-> "", key |-> "", val |-> PyNone,
           raised |-> FALSE, pre |-> EmptyDict]
LoadCall == [op |-> "load", cat |-> "", key |-> "", val |-> PyNone,
             raised |-> FALSE, pre |-> EmptyDict]

(***************************************************************************)
(* Quarantine manager: names, paths and the file system.                   *)
(* A file name is a sequence of characters; a run of characters without a  *)
(* dot that the code never looks into ("info", a timestamp) is one element.*)
(***************************************************************************)
MaxQOps == 3          \* quarantine-manager calls in one run
MaxClock == 12        \* the clock is not advanced past tick Now0 + MaxClock

TicksPerSecond == 2   \* clock resolution: datetime.now() has sub-second
                      \* resolution, strftime("%Y%m%d_%H%M%S") has not
DayTicks == 8         \* the model's clock scale: ticks in one day
StartDay == 739000    \* the day the run starts, counted from datetime.min

Max(S) == CHOOSE x \in S : \A y \in S : y <= x

\* PurePath.suffix: name[i:] for i = name.rfind('.') if 0 < i < len(name) - 1
suffix(name) ==
    LET dots == { i \in 1..Len(name) : name[i] = "." } IN
    IF dots = {} THEN <<>>
    ELSE LET i == Max(dots) IN
         IF 1 < i /\ i < Len(name) THEN SubSeq(name, i, Len(name)) ELSE <<>>

\* PurePath.with_suffix on the name
name_with_suffix(name, sfx) ==
    LET old == suffix(name) IN
    IF old = <<>> THEN name \o sfx
    ELSE SubSeq(name, 1, Len(name) - Len(old)) \o sfx

PathOf(dir, name) == [dir |-> dir, name |-> name]
with_suffix(path, sfx) == PathOf(path.dir, name_with_suffix(path.name, sfx))

InfoSuffix == <<".", "info">>
NoSuffix == <<>>
QuarantineDir == "quarantine"

\* glob("*.info") on a name
MatchesInfoGlob(name) ==
    /\ Len(name) >= 2
    /\ name[Len(name) - 1] = "."
    /\ name[Len(name)] = "info"

\* datetime.now().strftime("%Y%m%d_%H%M%S"): the second the tick lies in
strftime(t) == ToString(t \div TicksPerSecond)

\* f"{timestamp}_{source.name}_{threat_name}"
quarantine_name(timestamp, source_name, threat_name) ==
    <<timestamp, "_">> \o source_name \o <<"_">> \o threat_name

\* Files: a data file carries the path it was created at (its content's
\* identity) and its size; a sidecar carries the info mapping.
NoPath == PathOf("", <<>>)
NoInfo == [original_path |-> NoPath, threat_name |-> <<>>,
           quarantine_date |-> "", file_size |-> 0]
DataFile(origin, size, mtime) ==
    [kind |-> "data", origin |-> origin, size |-> size, mtime |-> mtime,
     info |-> NoInfo]
InfoFile(info, mtime) ==
    [kind |-> "info", origin |-> NoPath, size |-> 0, mtime |-> mtime,
     info |-> info]

exists(f, path) == path \in DOMAIN f

\* Path.rename: moves the file, replacing a file that is at the target
rename(f, from, to) ==
    [p \in (DOMAIN f \ {from}) \cup {to} |-> IF p = to THEN f[from] ELSE f[p]]
\* Path.unlink
unlink(f, path) == [p \in DOMAIN f \ {path} |-> f[p]]
\* open(path, 'w') and json.dump
write(f, path, rec) ==
    [p \in DOMAIN f \cup {path} |-> IF p = path THEN rec ELSE f[p]]

\* The sidecars glob("*.info") finds in the quarantine directory
glob_info(f) ==
    { p \in DOMAIN f : p.dir = QuarantineDir /\ MatchesInfoGlob(p.name) }

\* list_quarantined_files: one entry per sidecar that parses as JSON and
\* whose with_suffix('') file exists; the entry is the sidecar's mapping
\* plus the quarantine_file path.
list_quarantined_files(f) ==
    { [info |-> f[info_file].info, quarantine_file |-> with_suffix(info_file, NoSuffix)]
        : info_file \in { p \in glob_info(f) :
                            /\ f[p].kind = "info"
                            /\ exists(f, with_suffix(p, NoSuffix)) } }

\* The file-system effect of delete_quarantined_file when no unlink fails
delete_files(f, quarantine_file) ==
    LET info_file == with_suffix(quarantine_file, InfoSuffix)
        f1 == IF exists(f, quarantine_file) THEN unlink(f, quarantine_file) ELSE f
    IN  IF exists(f1, info_file) THEN unlink(f1, info_file) ELSE f1

\* cleanup_old_files' loop over the sidecars in the order the directory
\* listing gives them: a sidecar that is gone when its turn comes makes
\* stat() raise, which the loop's except swallows.
RECURSIVE cleanup_loop(_, _, _)
cleanup_loop(f, order, cutoff_date) ==
    IF order = <<>> THEN f
    ELSE LET info_file == Head(order) IN
         cleanup_loop(
            IF exists(f, info_file) /\ f[info_file].mtime < cutoff_date
            THEN delete_files(f, with_suffix(info_file, NoSuffix))
            ELSE f,
            Tail(order), cutoff_date)

\* All orders in which a set can be listed
Orders(S) == { o \in [1..Cardinality(S) -> S] : \A x \in S : \E i \in DOMAIN o : o[i] = x }

\* retention_days as a number (the value is a Python int)
IntValue(v) ==
    CASE v.s = "0" -> 0
      [] v.s = "1" -> 1
      [] v.s = "30" -> 30
      [] v.s = "36500" -> 36500
      [] v.s = "1000000" -> 1000000

(***************************************************************************)
(* Quarantine inputs and initial state                                     *)
(***************************************************************************)
SourceA == PathOf("home", <<"a">>)
SourceAT == PathOf("home", <<"a", ".", "t">>)
SourceAD == PathOf("home", <<"a", ".", "d">>)
SourceTmpA == PathOf("tmp", <<"a">>)
\* The paths quarantine_file is called with
Sources == {SourceA, SourceAT, SourceAD, SourceTmpA}
\* The files that exist at the start: three files of one directory, or two
\* files of the same name in two directories
SourcesPresent == {SourceA, SourceAT, SourceAD}
SameNameSources == {SourceA, SourceTmpA}
SizeOf(path) == 1 + Len(path.name)
ThreatNames == { <<"T">>, <<"W", ".", "E">> }
RetentionChoices == { PyInt("0"), PyInt("1"), PyInt("36500"), PyInt("1000000") }

Now0 == StartDay * DayTicks

NoQCall == [op |-> "none", ret |-> FALSE, raised |-> FALSE,
            source |-> NoPath, threat |-> <<>>, timestamp |-> "",
            quarantine_file |-> NoPath, target |-> NoPath, pre |-> <<>>]

QuarantineIdle ==
    /\ fs = <<>>
    /\ now = 0
    /\ entries = {}
    /\ qops = 0
    /\ qlast = NoQCall

SettingsIdle ==
    /\ file = FileOf("missing", NoDoc)
    /\ settings = DefaultSettings
    /\ default_settings = DefaultSettings
    /\ shared = DOMAIN DefaultSettings.d
    /\ sets_done = 0
    /\ last = NoCall

(***************************************************************************)
(* Scanner wrapper: threads, child processes and the UI thread.            *)
(***************************************************************************)
MaxCalls == 3         \* scan_path calls that start a worker, stop_scan calls
                      \* and update_database calls in one run
MaxLines == 1         \* lines one clamscan child writes to its stdout

None == 0             \* self.scan_process is None
NoReturncode == 99    \* Popen.returncode is None (the exit was not collected)
SIGTERM == 15

Scans == 1..MaxCalls

NoThread ==
    [pc |-> "none", p |-> None, output_lines |-> <<>>, stderr |-> None,
     returncode |-> NoReturncode, error |-> ""]
NoProcess ==
    [state |-> "none", stdout |-> <<>>, written |-> 0, exitcode |-> 0,
     signalled |-> FALSE, returncode |-> NoReturncode]
NoUICall ==
    [op |-> "none", returned |-> FALSE, raised |-> FALSE, ret |-> FALSE,
     scanning_at_call |-> FALSE, scan_at_call |-> None, terminated |-> None,
     scanning_at_return |-> FALSE, process_at_return |-> None]
UIIdle == [pc |-> "idle", started |-> 0, stops |-> 0, stopped |-> {},
           last |-> NoUICall]

\* No build_scan_command call has been made yet.
NoWrapperCall == [op |-> "none", path |-> "", cmd |-> <<>>]

\* No update_database call has been made yet.  child is the state of the
\* freshclam process, out and err what it has written to stdout and stderr,
\* started the number of update_database calls, dispatched the callbacks
\* the worker of the last call has queued.
NoUpdate ==
    [pc |-> "none", child |-> "none", exitcode |-> 0, out |-> <<>>, err |-> <<>>,
     started |-> 0, dispatched |-> <<>>]

\* No settings dialog has been opened.  ref is "own" when self.scan_options
\* of the wrapper is a dict of its own and "settings" when it is the very
\* dict the store holds as its scan_options category.
NoSnapshot == [settings |-> EmptyDict, file |-> FileOf("missing", NoDoc),
               scan_options |-> EmptyDict]
NoDialog == [open |-> FALSE, widgets |-> EmptyDict, at_open |-> NoSnapshot,
             ref |-> "own", accepted |-> FALSE, saved |-> EmptyDict,
             last |-> "none", opened |-> 0, edits |-> 0]

\* ClamAVWrapper.__init__
ScanIdle ==
    /\ scanning = FALSE
    /\ scan_process = None
    /\ th = [n \in Scans |-> NoThread]
    /\ proc = [n \in Scans |-> NoProcess]
    /\ ui = UIIdle
    /\ dispatched = [n \in Scans |-> <<>>]
    /\ scan_options = EmptyDict
    /\ wlast = NoWrapperCall
    /\ upd = NoUpdate
    /\ dlg = NoDialog

(***************************************************************************)
(* XClamAVSettings.__init__: ensure_config_dir(), load_settings().         *)
(***************************************************************************)
Construct(f) ==
    /\ settings' = load_settings(f)
    /\ default_settings' = DefaultSettings
    /\ shared' = load_shared(f)
    /\ last' = LoadCall

SettingsInit ==
    /\ file \in InitialFiles
    /\ settings = load_settings(file)
    /\ default_settings = DefaultSettings
    /\ shared = load_shared(file)
    /\ sets_done = 0
    /\ last = LoadCall
    /\ QuarantineIdle
    /\ ScanIdle

\* The program is started again: a fresh store is constructed on the file
\* the previous run left.
Restart ==
    /\ last.op # "load"
    /\ Construct(file)
    /\ UNCHANGED <<file, sets_done>>
    /\ UNCHANGED <<quarantineVars, scanVars>>

(***************************************************************************)
(* set(category, key, value)                                               *)
(***************************************************************************)
set_call(category, key, value, fail) ==
    LET created == IF category \notin DOMAIN settings.d
                   THEN SetItem(settings, category, EmptyDict)
                   ELSE settings
        target == created.d[category]
        op == IF fail = "none" THEN "set" ELSE "set_unsaved"
    IN  /\ sets_done < MaxSets
        /\ sets_done' = sets_done + 1
        /\ UNCHANGED <<quarantineVars, scanVars>>
        /\ IF target.k # "dict"
           THEN \* settings[category][key] = value raises TypeError: nothing
                \* is assigned and save_settings() is not reached
                /\ fail = "none"
                /\ last' = [op |-> op, cat |-> category, key |-> key,
                            val |-> value, raised |-> TRUE, pre |-> settings]
                /\ UNCHANGED <<file, settings, default_settings, shared>>
           ELSE LET written == SetItem(created, category, SetItem(target, key, value))
                IN  /\ settings' = written
                    /\ default_settings' =
                          IF category \in shared
                          THEN SetItem(default_settings, category,
                                       SetItem(default_settings.d[category], key, value))
                          ELSE default_settings
                    /\ file' = save_settings_to(file, written, fail)
                    /\ last' = [op |-> op, cat |-> category, key |-> key,
                                val |-> value, raised |-> FALSE, pre |-> settings]
                    /\ UNCHANGED shared

\* set with the settings file written
set(category, key, value) == set_call(category, key, value, "none")

Set == \E category \in Categories, key \in Keys, value \in Values :
          set(category, key, value)

\* get(category) and get(category, key): the call returns or raises, and
\* assigns nothing.
GetCategory ==
    \E category \in Categories :
        /\ last' = [op |-> "get_category", cat |-> category, key |-> "",
                    val |-> get_category(settings, category),
                    raised |-> FALSE, pre |-> settings]
        /\ UNCHANGED <<file, settings, default_settings, shared, sets_done>>
        /\ UNCHANGED <<quarantineVars, scanVars>>

Get ==
    \E category \in Categories, key \in Keys :
        LET result == get(settings, category, key) IN
        /\ last' = [op |-> "get", cat |-> category, key |-> key,
                    val |-> result.val, raised |-> result.raised,
                    pre |-> settings]
        /\ UNCHANGED <<file, settings, default_settings, shared, sets_done>>
        /\ UNCHANGED <<quarantineVars, scanVars>>

\* SettingsDialog.on_reset_settings with the answer Yes:
\* self.settings.settings = self.settings.default_settings.copy(), then
\* save_settings().  The copy is shallow: every category of the new store
\* is the dict object default_settings holds.
ResetSettings ==
    /\ last.op # "reset"
    /\ settings' = default_settings
    /\ shared' = DOMAIN default_settings.d
    /\ file' = save_settings(default_settings)
    /\ last' = [op |-> "reset", cat |-> "", key |-> "", val |-> PyNone,
                raised |-> FALSE, pre |-> settings]
    /\ UNCHANGED <<default_settings, sets_done>>
    /\ UNCHANGED <<quarantineVars, scanVars>>

SettingsNext == Set \/ Restart \/ ResetSettings

SpecSettings == SettingsInit /\ [][SettingsNext]_vars

\* The store with its readers
StoreNext == Set \/ Restart \/ ResetSettings \/ GetCategory \/ Get

SpecStore == SettingsInit /\ [][StoreNext]_vars

\* The store on a file system where the write of the settings file can fail
SetUnsaved == \E category \in Categories, key \in Keys, value \in Values,
                 fail \in WriteFailures :
                 set_call(category, key, value, fail)

WriteFailureNext == Set \/ SetUnsaved \/ Restart

SpecWriteFailure == SettingsInit /\ [][WriteFailureNext]_vars

(***************************************************************************)
(* Quarantine manager: the calls.  Every call takes time: the clock reads  *)
(* one tick later after it.                                                *)
(***************************************************************************)
QuarantineStart(present) ==
    /\ \E retention_days \in RetentionChoices :
          file = JsonFile(JObject("quarantine" :>
                    JObject("retention_days" :> json_dump(retention_days))))
    /\ settings = load_settings(file)
    /\ default_settings = DefaultSettings
    /\ shared = load_shared(file)
    /\ sets_done = 0
    /\ last = LoadCall
    /\ fs = [p \in present |-> DataFile(p, SizeOf(p), Now0 - 1)]
    /\ now = Now0
    /\ entries = {}
    /\ qops = 0
    /\ qlast = NoQCall
    /\ ScanIdle

QuarantineInit == QuarantineStart(SourcesPresent)

QCall(op, ret, raised, source, threat, timestamp, quarantine_file, target) ==
    [op |-> op, ret |-> ret, raised |-> raised, source |-> source,
     threat |-> threat, timestamp |-> timestamp,
     quarantine_file |-> quarantine_file, target |-> target, pre |-> fs]

QStep ==
    /\ qops < MaxQOps
    /\ qops' = qops + 1
    /\ now' = now + 1
    /\ UNCHANGED <<settingsVars, scanVars>>

\* A sidecar mapping that records no size.
info_record_NoSize(source, threat_name, timestamp, file_size) ==
    [original_path |-> source, threat_name |-> threat_name,
     quarantine_date |-> timestamp, file_size |-> 0]

\* The info mapping quarantine_file writes into the sidecar
info_record(source, threat_name, timestamp, file_size) ==
    [original_path |-> source, threat_name |-> threat_name,
     quarantine_date |-> timestamp, file_size |-> file_size]

\* quarantine_file(source_path, threat_name); fail names the step on which
\* the operating system raises, if any.
quarantine_file(source, threat_name, fail) ==
    LET timestamp == strftime(now)
        quarantine_file_path ==
            PathOf(QuarantineDir, quarantine_name(timestamp, source.name, threat_name))
        moved == rename(fs, source, quarantine_file_path)
        info_file == with_suffix(quarantine_file_path, InfoSuffix)
        info == info_record(source, threat_name, timestamp,
                            moved[quarantine_file_path].size)
        call(ret) == QCall("quarantine", ret, FALSE, source, threat_name,
                           timestamp, quarantine_file_path, info_file)
    IN  /\ QStep
        /\ IF ~exists(fs, source)
           THEN /\ fail = "none"
                /\ qlast' = call(FALSE)
                /\ UNCHANGED <<fs, entries>>
           ELSE IF fail = "rename"
           THEN /\ qlast' = call(FALSE)
                /\ UNCHANGED <<fs, entries>>
           ELSE IF fail = "write"
           THEN /\ fs' = moved
                /\ qlast' = call(FALSE)
                /\ UNCHANGED entries
           ELSE /\ fs' = write(moved, info_file, InfoFile(info, now))
                /\ entries' = entries \cup
                      {[quarantine_file |-> quarantine_file_path, info |-> info]}
                /\ qlast' = call(TRUE)

QuarantineFile ==
    \E source \in Sources, threat_name \in ThreatNames,
       fail \in {"none", "rename", "write"} :
        quarantine_file(source, threat_name, fail)

\* list_quarantined_files()
ListQuarantinedFiles ==
    /\ QStep
    /\ qlast.op # "list"
    /\ qlast' = QCall("list", TRUE, FALSE, NoPath, <<>>, "", NoPath, NoPath)
    /\ UNCHANGED <<fs, entries>>

\* restore_file(quarantine_file, original_path)
restore_file(qfile, original, fail) ==
    LET info_file == with_suffix(qfile, InfoSuffix)
        moved == rename(fs, qfile, original)
        call(ret) == QCall("restore", ret, FALSE, original, <<>>, "", qfile, info_file)
    IN  /\ QStep
        /\ UNCHANGED entries
        /\ IF ~exists(fs, qfile)
           THEN /\ fail = "none"
                /\ qlast' = call(FALSE)      \* rename raises FileNotFoundError
                /\ UNCHANGED fs
           ELSE IF fail = "rename"
           THEN /\ qlast' = call(FALSE)
                /\ UNCHANGED fs
           ELSE IF exists(moved, info_file)
           THEN IF fail = "unlink"
                THEN /\ fs' = moved
                     /\ qlast' = call(FALSE)
                ELSE /\ fs' = unlink(moved, info_file)
                     /\ qlast' = call(TRUE)
           ELSE /\ fail = "none"
                /\ fs' = moved
                /\ qlast' = call(TRUE)

RestoreFile ==
    \E e \in entries, fail \in {"none", "rename", "unlink"} :
        restore_file(e.quarantine_file, e.info.original_path, fail)

\* delete_quarantined_file(quarantine_file)
delete_quarantined_file(qfile, fail) ==
    LET info_file == with_suffix(qfile, InfoSuffix)
        call(ret) == QCall("delete", ret, FALSE, NoPath, <<>>, "", qfile, info_file)
    IN  /\ QStep
        /\ UNCHANGED entries
        /\ IF fail = "unlink"
           THEN \* the first unlink that is attempted raises
                /\ exists(fs, qfile) \/ exists(fs, info_file)
                /\ qlast' = call(FALSE)
                /\ UNCHANGED fs
           ELSE /\ fs' = delete_files(fs, qfile)
                /\ qlast' = call(TRUE)

DeleteQuarantinedFile ==
    \E e \in entries, fail \in {"none", "unlink"} :
        delete_quarantined_file(e.quarantine_file, fail)

\* cleanup_old_files(): the retention sweep
CleanupOldFiles ==
    LET retention_days == IntValue(get(settings, "quarantine", "retention_days").val)
        cutoff_date == now - retention_days * DayTicks
        call(raised) == QCall("cleanup", ~raised, raised, NoPath, <<>>, "", NoPath, NoPath)
    IN  /\ QStep
        /\ UNCHANGED entries
        /\ IF cutoff_date < 0
           THEN \* datetime.now() - timedelta(...) raises OverflowError
                /\ qlast' = call(TRUE)
                /\ UNCHANGED fs
           ELSE /\ \E order \in Orders(glob_info(fs)) :
                      fs' = cleanup_loop(fs, order, cutoff_date)
                /\ qlast' = call(FALSE)

\* Time passes between two calls.
AdvanceDay ==
    /\ now + DayTicks <= Now0 + MaxClock
    /\ now' = now + DayTicks
    /\ UNCHANGED <<fs, entries, qops, qlast>>
    /\ UNCHANGED <<settingsVars, scanVars>>

QuarantineNext ==
    \/ QuarantineFile
    \/ ListQuarantinedFiles
    \/ RestoreFile
    \/ DeleteQuarantinedFile
    \/ CleanupOldFiles
    \/ AdvanceDay

SpecQuarantine == QuarantineInit /\ [][QuarantineNext]_vars

\* The quarantine manager on two files of the same name
SameNameInit == QuarantineStart(SameNameSources)

SpecSameName == SameNameInit /\ [][QuarantineNext]_vars

(***************************************************************************)
(* Scanner wrapper: scan_path and stop_scan on the UI thread, run_scan on  *)
(* a worker thread per accepted scan, and the clamscan children.  A thread *)
(* switch can fall between any two reads or writes of self.scanning and    *)
(* self.scan_process, so each of those is a step of its own.               *)
(***************************************************************************)
ScanInit ==
    /\ SettingsIdle
    /\ QuarantineIdle
    /\ ScanIdle

ScanFrame == UNCHANGED <<settingsVars, quarantineVars, scan_options, wlast, upd, dlg>>

\* A scan_path that starts a worker without looking at self.scanning.
ScanPath_NoTest ==
    /\ ui.pc = "idle"
    /\ ScanFrame
    /\ UNCHANGED <<scan_process, proc, dispatched>>
    /\ ui.started + ui.stops + upd.started < MaxCalls
    /\ scanning' = TRUE
    /\ th' = [th EXCEPT ![ui.started + 1].pc = "popen"]
    /\ ui' = [ui EXCEPT !.started = @ + 1,
                 !.last = [NoUICall EXCEPT !.op = "scan_path", !.returned = TRUE,
                              !.ret = TRUE, !.scanning_at_call = scanning,
                              !.scan_at_call = ui.started,
                              !.scanning_at_return = TRUE,
                              !.process_at_return = scan_process]]

\* scan_path(path, callback, progress_callback), called on the UI thread
ScanPath ==
    /\ ui.pc = "idle"
    /\ ScanFrame
    /\ UNCHANGED <<scan_process, proc, dispatched>>
    /\ LET call(ret) == [NoUICall EXCEPT !.op = "scan_path", !.returned = TRUE,
                            !.ret = ret, !.scanning_at_call = scanning,
                            !.scan_at_call = ui.started,
                            !.scanning_at_return = (scanning \/ ret),
                            !.process_at_return = scan_process]
       IN IF scanning
          THEN /\ ui.last.op # "scan_path" \/ ui.last.ret
               /\ ui' = [ui EXCEPT !.last = call(FALSE)]      \* return False
               /\ UNCHANGED <<scanning, th>>
          ELSE /\ ui.started + ui.stops + upd.started < MaxCalls
               /\ scanning' = TRUE
               /\ th' = [th EXCEPT ![ui.started + 1].pc = "popen"]   \* thread.start()
               /\ ui' = [ui EXCEPT !.started = @ + 1, !.last = call(TRUE)]

\* stop_scan(), called on the UI thread: if self.scan_process:
StopScanTest ==
    /\ ui.pc = "idle"
    /\ ui.started + ui.stops + upd.started < MaxCalls
    /\ ScanFrame
    /\ UNCHANGED <<scanning, scan_process, th, proc, dispatched>>
    /\ LET call == [NoUICall EXCEPT !.op = "stop_scan",
                       !.scanning_at_call = scanning, !.scan_at_call = ui.started]
       IN IF scan_process # None
          THEN ui' = [ui EXCEPT !.pc = "stop_terminate", !.stops = @ + 1, !.last = call]
          ELSE ui' = [ui EXCEPT !.stops = @ + 1,
                         !.last = [call EXCEPT !.returned = TRUE,
                                      !.scanning_at_return = scanning,
                                      !.process_at_return = scan_process]]

\* self.scan_process.terminate()
StopScanTerminate ==
    /\ ui.pc = "stop_terminate"
    /\ ScanFrame
    /\ UNCHANGED <<scanning, scan_process, th, dispatched>>
    /\ IF scan_process = None
       THEN \* AttributeError leaves stop_scan
            /\ ui' = [ui EXCEPT !.pc = "idle", !.last.raised = TRUE]
            /\ UNCHANGED proc
       ELSE /\ ui' = [ui EXCEPT !.pc = "stop_scanning", !.last.terminated = scan_process,
                            !.stopped = @ \cup {scan_process}]
            /\ proc' = [proc EXCEPT ![scan_process].signalled =
                            (@ \/ proc[scan_process].state = "running")]

\* self.scanning = False
StopScanClearScanning ==
    /\ ui.pc = "stop_scanning"
    /\ ScanFrame
    /\ scanning' = FALSE
    /\ ui' = [ui EXCEPT !.pc = "stop_process"]
    /\ UNCHANGED <<scan_process, th, proc, dispatched>>

\* self.scan_process = None, and stop_scan returns
StopScanClearProcess ==
    /\ ui.pc = "stop_process"
    /\ ScanFrame
    /\ scan_process' = None
    /\ ui' = [ui EXCEPT !.pc = "idle", !.last.returned = TRUE,
                 !.last.scanning_at_return = scanning,
                 !.last.process_at_return = None]
    /\ UNCHANGED <<scanning, th, proc, dispatched>>

\* ---- the clamscan child of scan n ----
ChildWrite(n) ==
    /\ proc[n].state = "running"
    /\ ~proc[n].signalled
    /\ proc[n].written < MaxLines
    /\ proc' = [proc EXCEPT ![n].written = @ + 1,
                            ![n].stdout = Append(@, <<n, proc[n].written + 1>>)]
    /\ ScanFrame
    /\ UNCHANGED <<scanning, scan_process, th, ui, dispatched>>

ChildExit(n) ==
    /\ proc[n].state = "running"
    /\ IF proc[n].signalled
       THEN proc' = [proc EXCEPT ![n].state = "exited", ![n].exitcode = -SIGTERM]
       ELSE \E code \in {0, 1} :
               proc' = [proc EXCEPT ![n].state = "exited", ![n].exitcode = code]
    /\ ScanFrame
    /\ UNCHANGED <<scanning, scan_process, th, ui, dispatched>>

\* ---- run_scan, the worker thread of scan n ----
\* An except clause that leaves self.scanning as it is.
Except_KeepScanning(n, error) ==
    [th EXCEPT ![n] = [NoThread EXCEPT !.pc = "except_process", !.error = error]]

\* An exception that ends the thread with no except clause run.
Except_Uncaught(n, error) == [th EXCEPT ![n] = [NoThread EXCEPT !.pc = "done"]]

\* An exception anywhere in the try block enters the except clause.
Except(n, error) == [th EXCEPT ![n] = [NoThread EXCEPT !.pc = "except_scanning",
                                                        !.error = error]]

WorkerFrame == ScanFrame /\ UNCHANGED ui

\* cmd = build_scan_command(path); self.scan_process = subprocess.Popen(cmd, ...)
WorkerPopen(n) ==
    /\ th[n].pc = "popen"
    /\ WorkerFrame
    /\ UNCHANGED <<scanning, dispatched>>
    /\ \/ /\ proc' = [proc EXCEPT ![n].state = "running"]
          /\ scan_process' = n
          /\ th' = [th EXCEPT ![n].pc = "readline"]
       \/ /\ th' = Except(n, "Popen")              \* e.g. FileNotFoundError
          /\ UNCHANGED <<scan_process, proc>>

\* self.scan_process.stdout: the attribute is read, then readline() blocks
WorkerReadlineAttr(n) ==
    /\ th[n].pc = "readline"
    /\ WorkerFrame
    /\ UNCHANGED <<scanning, scan_process, proc, dispatched>>
    /\ th' = IF scan_process = None
             THEN Except(n, "NoneType")
             ELSE [th EXCEPT ![n].pc = "readline_wait", ![n].p = scan_process]

\* readline() returns a line, which is appended and forwarded, or '' at EOF
WorkerReadline(n) ==
    LET p == th[n].p IN
    /\ th[n].pc = "readline_wait"
    /\ WorkerFrame
    /\ UNCHANGED <<scanning, scan_process>>
    /\ IF proc[p].stdout # <<>>
       THEN LET output == Head(proc[p].stdout) IN
            /\ proc' = [proc EXCEPT ![p].stdout = Tail(@)]
            /\ th' = [th EXCEPT ![n].pc = "readline", ![n].p = None,
                                ![n].output_lines = Append(@, output)]
            /\ dispatched' = [dispatched EXCEPT ![n] = Append(@,
                  [callback |-> "progress", success |-> FALSE,
                   output |-> <<output>>, stderr |-> None, error |-> ""])]
       ELSE /\ proc[p].state = "exited"
            /\ th' = [th EXCEPT ![n].pc = "poll", ![n].p = None]
            /\ UNCHANGED <<proc, dispatched>>

\* output == '' and self.scan_process.poll() is not None
WorkerPoll(n) ==
    /\ th[n].pc = "poll"
    /\ WorkerFrame
    /\ UNCHANGED <<scanning, scan_process, dispatched>>
    /\ IF scan_process = None
       THEN th' = Except(n, "NoneType") /\ UNCHANGED proc
       ELSE IF proc[scan_process].state = "exited"
       THEN /\ proc' = [proc EXCEPT ![scan_process].returncode =
                                       proc[scan_process].exitcode]
            /\ th' = [th EXCEPT ![n].pc = "stderr"]         \* break
       ELSE /\ th' = [th EXCEPT ![n].pc = "readline"]
            /\ UNCHANGED proc

\* stderr = self.scan_process.stderr.read(): attribute read, then a read to EOF
WorkerStderrAttr(n) ==
    /\ th[n].pc = "stderr"
    /\ WorkerFrame
    /\ UNCHANGED <<scanning, scan_process, proc, dispatched>>
    /\ th' = IF scan_process = None
             THEN Except(n, "NoneType")
             ELSE [th EXCEPT ![n].pc = "stderr_wait", ![n].p = scan_process]

WorkerStderr(n) ==
    /\ th[n].pc = "stderr_wait"
    /\ proc[th[n].p].state = "exited"
    /\ WorkerFrame
    /\ UNCHANGED <<scanning, scan_process, proc, dispatched>>
    /\ th' = [th EXCEPT ![n].pc = "returncode", ![n].p = None,
                        ![n].stderr = th[n].p]

\* returncode = self.scan_process.returncode
WorkerReturncode(n) ==
    /\ th[n].pc = "returncode"
    /\ WorkerFrame
    /\ UNCHANGED <<scanning, scan_process, proc, dispatched>>
    /\ th' = IF scan_process = None
             THEN Except(n, "NoneType")
             ELSE [th EXCEPT ![n].pc = "clear_scanning",
                             ![n].returncode = proc[scan_process].returncode]

\* self.scanning = False (after the loop, or in the except clause)
WorkerClearScanning(n) ==
    /\ th[n].pc \in {"clear_scanning", "except_scanning"}
    /\ WorkerFrame
    /\ scanning' = FALSE
    /\ th' = [th EXCEPT ![n].pc = IF @ = "clear_scanning"
                                  THEN "clear_process" ELSE "except_process"]
    /\ UNCHANGED <<scan_process, proc, dispatched>>

\* self.scan_process = None, then
\* GLib.idle_add(callback, returncode == 0, '\n'.join(output_lines), stderr)
\* or, in the except clause, GLib.idle_add(callback, False, "", str(e))
WorkerClearProcess(n) ==
    /\ th[n].pc \in {"clear_process", "except_process"}
    /\ WorkerFrame
    /\ scan_process' = None
    /\ th' = [th EXCEPT ![n] = [NoThread EXCEPT !.pc = "done"]]   \* the thread ends
    /\ dispatched' = [dispatched EXCEPT ![n] = Append(@,
          IF th[n].pc = "clear_process"
          THEN [callback |-> "complete", success |-> (th[n].returncode = 0),
                output |-> th[n].output_lines, stderr |-> th[n].stderr,
                error |-> ""]
          ELSE [callback |-> "complete", success |-> FALSE,
                output |-> <<>>, stderr |-> None, error |-> th[n].error])]
    /\ UNCHANGED <<scanning, proc>>

Worker(n) ==
    \/ WorkerPopen(n)
    \/ WorkerReadlineAttr(n)
    \/ WorkerReadline(n)
    \/ WorkerPoll(n)
    \/ WorkerStderrAttr(n)
    \/ WorkerStderr(n)
    \/ WorkerReturncode(n)
    \/ WorkerClearScanning(n)
    \/ WorkerClearProcess(n)

(***************************************************************************)
(* update_database(callback): the run_update worker and its freshclam      *)
(* child.  The worker keeps its Popen object in a local variable.          *)
(***************************************************************************)
UpdateFrame ==
    /\ UNCHANGED <<settingsVars, quarantineVars>>
    /\ UNCHANGED <<scanning, scan_process, th, proc, ui, dispatched, scan_options, wlast, dlg>>

\* What freshclam may have written when it exits
UpdateOutputs == { <<>>, <<"updated">> }
UpdateErrors == { <<>>, <<"warning">> }

\* update_database(callback), called on the UI thread: thread.start()
UpdateDatabase ==
    /\ ui.pc = "idle"
    /\ upd.pc \in {"none", "done"}
    /\ ui.started + ui.stops + upd.started < MaxCalls
    /\ upd' = [NoUpdate EXCEPT !.pc = "popen", !.started = upd.started + 1]
    /\ UpdateFrame

\* process = subprocess.Popen(['sudo', 'freshclam'], ...)
UpdatePopen ==
    /\ upd.pc = "popen"
    /\ UpdateFrame
    /\ \/ upd' = [upd EXCEPT !.pc = "communicate", !.child = "running"]
       \/ \* Popen raises: GLib.idle_add(callback, False, "", str(e))
          upd' = [upd EXCEPT !.pc = "done",
                     !.dispatched = Append(@,
                        [callback |-> "complete", success |-> FALSE,
                         output |-> <<>>, stderr |-> <<>>, error |-> "Popen"])]

\* freshclam writes its output and exits
UpdateChildExit ==
    /\ upd.child = "running"
    /\ UpdateFrame
    /\ \E code \in {0, 1}, out \in UpdateOutputs, err \in UpdateErrors :
          upd' = [upd EXCEPT !.child = "exited", !.exitcode = code,
                             !.out = out, !.err = err]

\* stdout, stderr = process.communicate()
\* GLib.idle_add(callback, process.returncode == 0, stdout, stderr)
UpdateCommunicate ==
    /\ upd.pc = "communicate"
    /\ upd.child = "exited"
    /\ UpdateFrame
    /\ upd' = [upd EXCEPT !.pc = "done",
                  !.dispatched = Append(@,
                     [callback |-> "complete", success |-> (upd.exitcode = 0),
                      output |-> upd.out, stderr |-> upd.err, error |-> ""])]

UpdateNext ==
    \/ UpdateDatabase
    \/ UpdatePopen
    \/ UpdateChildExit
    \/ UpdateCommunicate

ScanNext ==
    \/ ScanPath
    \/ StopScanTest
    \/ StopScanTerminate
    \/ StopScanClearScanning
    \/ StopScanClearProcess
    \/ \E n \in Scans : ChildWrite(n)
    \/ \E n \in Scans : ChildExit(n)
    \/ \E n \in Scans : Worker(n)
    \/ UpdateNext

SpecScan == ScanInit /\ [][ScanNext]_vars

\* The scans alone, with every started worker thread scheduled again and
\* again until it ends, and every clamscan child exiting in the end (of
\* itself, or on the signal stop_scan sent).
ScanFairNext ==
    \/ ScanPath
    \/ StopScanTest
    \/ StopScanTerminate
    \/ StopScanClearScanning
    \/ StopScanClearProcess
    \/ \E n \in Scans : ChildWrite(n)
    \/ \E n \in Scans : ChildExit(n)
    \/ \E n \in Scans : Worker(n)

SpecScanFair ==
    /\ ScanInit
    /\ [][ScanFairNext]_vars
    /\ \A n \in Scans : WF_vars(Worker(n)) /\ WF_vars(ChildExit(n))

(***************************************************************************)
(* build_scan_command(path): the clamscan argument list built from         *)
(* self.scan_options.                                                      *)
(***************************************************************************)
\* Python's truth test of a value (`if value:`)
truthy(v) ==
    CASE v.k = "bool" -> v.s = "True"
      [] v.k = "NoneType" -> FALSE
      [] v.k = "int" -> v.s # "0"
      [] v.k = "str" -> v.s # ""
      [] v.k = "list" -> v.s # "[]"
      [] v.k = "dict" -> DOMAIN v.d # {}

\* str(value) as an f-string inserts it
str(v) == v.s

\* A lookup that answers None for a key that is absent.
options_get_NoDefault(options, key, default) ==
    IF key \in DOMAIN options.d THEN options.d[key] ELSE PyNone

\* self.scan_options.get(key, default)
options_get(options, key, default) ==
    IF key \in DOMAIN options.d THEN options.d[key] ELSE default

\* if self.scan_options.get(key, default): cmd.append('<name>=yes')
\* else: cmd.append('<name>=no')
yes_no_flag(options, name, key, default) ==
    IF truthy(options_get(options, key, default))
    THEN name \o "=yes"
    ELSE name \o "=no"

build_scan_command(options, path) ==
    LET max_size == options_get(options, "max_file_size", PyInt("20"))
        max_recursion == options_get(options, "max_recursion", PyInt("15"))
    IN  <<"clamscan",
          yes_no_flag(options, "--scan-archive", "scan_archives", PyTrue),
          yes_no_flag(options, "--scan-pdf", "scan_pdf", PyTrue),
          yes_no_flag(options, "--scan-ole2", "scan_ole2", PyTrue),
          yes_no_flag(options, "--scan-html", "scan_html", PyTrue),
          yes_no_flag(options, "--scan-pe", "scan_pe", PyTrue),
          yes_no_flag(options, "--scan-elf", "scan_elf", PyTrue),
          yes_no_flag(options, "--detect-pua", "detect_pua", PyFalse)>>
        \o (IF ~truthy(options_get(options, "scan_hidden", PyFalse))
            THEN <<"--exclude-dir=^\\.">>
            ELSE <<>>)
        \o <<"--max-filesize=" \o str(max_size) \o "M",
             "--max-dir-recursion=" \o str(max_recursion)>>
        \o <<"--recursive", "--infected", "--bell", path>>

\* The scan-option mappings the command is built from: each toggle true,
\* false or absent, each limit a number or absent.
ToggleKeys == {"scan_archives", "scan_pdf", "scan_ole2", "scan_html",
               "scan_pe", "scan_elf", "detect_pua", "scan_hidden"}
LimitKeys == {"max_file_size", "max_recursion"}
LimitValues == {PyInt("5"), PyInt("50")}
OptionMappings ==
    { Dict(toggles @@ limits) :
        toggles \in UNION { [K -> {PyTrue, PyFalse}] : K \in SUBSET ToggleKeys },
        limits \in UNION { [K -> LimitValues] : K \in SUBSET LimitKeys } }
TargetPaths == {"/home/u", "/tmp/x y"}

\* The wrapper after set_scan_options(options)
CommandInit ==
    /\ SettingsIdle
    /\ QuarantineIdle
    /\ scanning = FALSE
    /\ scan_process = None
    /\ th = [n \in Scans |-> NoThread]
    /\ proc = [n \in Scans |-> NoProcess]
    /\ ui = UIIdle
    /\ dispatched = [n \in Scans |-> <<>>]
    /\ scan_options \in OptionMappings
    /\ wlast = NoWrapperCall
    /\ upd = NoUpdate
    /\ dlg = NoDialog

BuildScanCommand ==
    \E path \in TargetPaths :
        /\ wlast' = IF scan_options.k = "dict"
                    THEN [op |-> "build_scan_command", path |-> path,
                          cmd |-> build_scan_command(scan_options, path)]
                    ELSE \* AttributeError: the options have no attribute 'get'
                         [op |-> "build_scan_command_raised", path |-> path,
                          cmd |-> <<>>]
        /\ UNCHANGED <<settingsVars, quarantineVars>>
        /\ UNCHANGED <<scanning, scan_process, th, proc, ui, dispatched, scan_options, upd, dlg>>

CommandNext == BuildScanCommand

SpecCommand == CommandInit /\ [][CommandNext]_vars

(***************************************************************************)
(* The main window and its settings dialog.  XClamAVWindow.__init__ makes  *)
(* the wrapper and the store and calls apply_settings(); on_settings opens *)
(* the modal dialog, and on OK or Apply calls save_current_settings() and  *)
(* apply_settings().                                                       *)
(***************************************************************************)
\* int(s) and str(n) for the numbers the controls meet
IntTable == { <<"0", 0>>, <<"1", 1>>, <<"4", 4>>, <<"5", 5>>, <<"7", 7>>,
              <<"15", 15>>, <<"16", 16>>, <<"20", 20>>, <<"30", 30>>,
              <<"50", 50>>, <<"128", 128>>, <<"365", 365>>, <<"512", 512>>,
              <<"1000", 1000>>, <<"4096", 4096>>, <<"5000", 5000>> }
int_of(digits) == (CHOOSE p \in IntTable : p[1] = digits)[2]
str_of(n) == (CHOOSE p \in IntTable : p[2] = n)[1]

\* The controls of the dialog (setup_ui), by the setting each one shows
Check == [w |-> "check", lo |-> 0, hi |-> 0, names |-> {}, default |-> ""]
Spin(lo, hi) == [w |-> "spin", lo |-> lo, hi |-> hi, names |-> {}, default |-> ""]
Combo(names, default) ==
    [w |-> "combo", lo |-> 0, hi |-> 0, names |-> names, default |-> default]
Entry == [w |-> "entry", lo |-> 0, hi |-> 0, names |-> {}, default |-> ""]
ListStore == [w |-> "list", lo |-> 0, hi |-> 0, names |-> {}, default |-> ""]

Controls ==
    "scan_options" :> (
        "scan_archives" :> Check @@ "scan_pdf" :> Check @@ "scan_ole2" :> Check @@
        "scan_html" :> Check @@ "scan_pe" :> Check @@ "scan_elf" :> Check @@
        "detect_pua" :> Check @@ "scan_hidden" :> Check @@
        "max_file_size" :> Spin(1, 1000) @@ "max_recursion" :> Spin(1, 50))
    @@ "real_time" :> (
        "enabled" :> Check @@ "watch_downloads" :> Check @@ "watch_home" :> Check @@
        "watch_removable" :> Check @@ "prevention_mode" :> Check)
    @@ "updates" :> (
        "auto_update" :> Check @@
        "update_frequency" :> Combo({"daily", "weekly", "manual"}, "daily") @@
        "check_on_startup" :> Check)
    @@ "notifications" :> (
        "show_scan_complete" :> Check @@ "show_threats_found" :> Check @@
        "show_update_complete" :> Check @@ "system_tray" :> Check)
    @@ "quarantine" :> (
        "auto_quarantine" :> Check @@ "quarantine_path" :> Entry @@
        "retention_days" :> Spin(1, 365))
    @@ "interface" :> (
        "start_minimized" :> Check @@ "close_to_tray" :> Check @@
        "dark_mode" :> Combo({"auto", "light", "dark"}, "auto") @@
        "language" :> Combo({"auto", "en", "he", "es", "fr", "de"}, "auto"))
    @@ "exclusions" :> ("paths" :> ListStore @@ "extensions" :> ListStore)
    @@ "advanced" :> (
        "scan_threads" :> Spin(1, 16) @@ "memory_limit" :> Spin(128, 4096) @@
        "database_mirror" :> Combo({"auto", "official", "custom"}, "auto") @@
        "log_level" :> Combo({"debug", "info", "warning", "error"}, "info"))

\* The second argument of each .get(key, default) of load_current_settings
ControlDefault(category, key) ==
    CASE category = "quarantine" /\ key = "quarantine_path" -> PyStr("")
      [] category = "exclusions" -> PyList("[]")
      [] OTHER -> DefaultSettings.d[category].d[key]

\* What a control holds after it was given v, as save_current_settings
\* reads it back: a check button the truth of v, a spin button the number
\* clamped to its range, a combo box the name when it is one of its rows
\* and its fallback row otherwise, an entry the text, a list store the rows.
\* A spin button given anything but a number, an entry given anything but a
\* str, a mapping lookup with an unhashable key and a loop over a value
\* that is not iterable raise TypeError.  (A str in place of a list would be
\* iterated by character; no store of the model holds one there.)
ControlValue(c, v) ==
    CASE c.w = "check" -> Returned(IF truthy(v) THEN PyTrue ELSE PyFalse)
      [] c.w = "spin" ->
            IF v.k \notin {"int", "bool"} THEN Raised
            ELSE LET n == IF v.k = "bool" THEN (IF v.s = "True" THEN 1 ELSE 0)
                          ELSE int_of(v.s)
                 IN  Returned(PyInt(str_of(IF n < c.lo THEN c.lo
                                           ELSE IF n > c.hi THEN c.hi ELSE n)))
      [] c.w = "combo" ->
            IF v.k \in {"list", "dict"} THEN Raised
            ELSE IF v.k = "str" /\ v.s \in c.names THEN Returned(v)
            ELSE Returned(PyStr(c.default))
      [] c.w = "entry" -> IF v.k = "str" THEN Returned(v) ELSE Raised
      [] c.w = "list" -> IF v.k = "list" THEN Returned(v) ELSE Raised

\* One control of load_current_settings: settings.get(category).get(key, default)
LoadControl(st, category, key) ==
    LET opts == get_category(st, category) IN
    IF opts.k # "dict" THEN Raised        \* AttributeError: no attribute 'get'
    ELSE ControlValue(Controls[category][key],
                      IF key \in DOMAIN opts.d THEN opts.d[key]
                      ELSE ControlDefault(category, key))

\* load_current_settings raises, and the dialog is never shown
load_current_settings_raises(st) ==
    \E category \in DOMAIN Controls : \E key \in DOMAIN Controls[category] :
        LoadControl(st, category, key).raised

\* The controls after load_current_settings
load_current_settings(st) ==
    Dict([category \in DOMAIN Controls |->
            Dict([key \in DOMAIN Controls[category] |->
                    LoadControl(st, category, key).val])])

\* save_current_settings: one settings.set(category, key, value) for every
\* control.  Every category is a dict here (load_current_settings went
\* through), so no set raises; the keys without a control stay.
save_current_settings(st, widgets) ==
    Dict([category \in DOMAIN st.d \cup DOMAIN widgets.d |->
            IF category \notin DOMAIN widgets.d THEN st.d[category]
            ELSE IF category \notin DOMAIN st.d THEN widgets.d[category]
            ELSE Dict(widgets.d[category].d @@ st.d[category].d)])

\* A wrapper that keeps the options it had.
set_scan_options_Ignored(options) == EmptyDict

\* set_scan_options(options): self.scan_options = options
set_scan_options(options) == options

\* apply_settings raises: notifications.get / interface.get on a value that
\* is true and not a dict
apply_settings_raises(st) ==
    \E category \in {"notifications", "interface"} :
        /\ truthy(get_category(st, category))
        /\ get_category(st, category).k # "dict"

\* apply_settings: the [ref, options] of the wrapper afterwards.  The
\* wrapper is given the store's dict itself, never a copy.
apply_settings(st, ref, options) ==
    LET category == get_category(st, "scan_options") IN
    IF truthy(category)
    THEN [ref |-> "settings", options |-> set_scan_options(category)]
    ELSE [ref |-> ref, options |-> options]

\* The wrapper's options after the store went from st to st2 with the
\* store's scan_options dict still the same object (kept is TRUE): a wrapper
\* that holds that dict sees every change made to it.
OptionsAfter(ref, options, st2, kept) ==
    IF ref = "settings" /\ kept
    THEN [ref |-> "settings", options |-> get_category(st2, "scan_options")]
    ELSE [ref |-> "own", options |-> options]

\* Settings files the window starts with
DialogFiles ==
    InitialFiles \cup
    { JsonFile(JObject("scan_options" :> JObject("max_file_size" :> JNum("5000")))) }

\* What the user does to the controls: a check button toggled, a spin
\* button set within its range
UserEdits == { <<"scan_options", "scan_pdf", PyFalse>>,
               <<"scan_options", "scan_pdf", PyTrue>>,
               <<"scan_options", "max_file_size", PyInt("5")>>,
               <<"quarantine", "retention_days", PyInt("7")>> }
Responses == {"ok", "apply", "cancel"}

MaxDialogs == 2
MaxEdits == 2

\* XClamAVWindow.__init__
DialogInit ==
    /\ file \in DialogFiles
    /\ settings = load_settings(file)
    /\ default_settings = DefaultSettings
    /\ shared = load_shared(file)
    /\ sets_done = 0
    /\ last = LoadCall
    /\ QuarantineIdle
    /\ scanning = FALSE
    /\ scan_process = None
    /\ th = [n \in Scans |-> NoThread]
    /\ proc = [n \in Scans |-> NoProcess]
    /\ ui = UIIdle
    /\ dispatched = [n \in Scans |-> <<>>]
    /\ wlast = NoWrapperCall
    /\ upd = NoUpdate
    /\ ~apply_settings_raises(settings)
    /\ LET applied == apply_settings(settings, "own", EmptyDict)
       IN  /\ scan_options = applied.options
           /\ dlg = [NoDialog EXCEPT !.ref = applied.ref]

DialogFrame ==
    UNCHANGED <<quarantineVars, scanning, scan_process, th, proc, ui, dispatched,
                wlast, upd, sets_done, last>>

\* on_settings up to dialog.run(): SettingsDialog(self, self.settings)
OnSettings ==
    /\ ~dlg.open
    /\ dlg.opened < MaxDialogs
    /\ DialogFrame
    /\ UNCHANGED <<file, settings, default_settings, shared, scan_options>>
    /\ IF load_current_settings_raises(settings)
       THEN dlg' = [dlg EXCEPT !.opened = @ + 1, !.last = "open_raised"]
       ELSE dlg' = [dlg EXCEPT !.open = TRUE, !.opened = @ + 1, !.last = "open",
                               !.widgets = load_current_settings(settings),
                               !.at_open = [settings |-> settings, file |-> file,
                                            scan_options |-> scan_options]]

\* The user changes a control
EditControl ==
    /\ dlg.open
    /\ dlg.edits < MaxEdits
    /\ DialogFrame
    /\ UNCHANGED <<file, settings, default_settings, shared, scan_options>>
    /\ \E e \in UserEdits :
          dlg' = [dlg EXCEPT !.edits = @ + 1, !.last = "edit",
                             !.widgets = SetItem(@, e[1], SetItem(@.d[e[1]], e[2], e[3]))]

\* on_reset_settings answered Yes: self.settings.settings =
\* self.settings.default_settings.copy(), save_settings(), the list stores
\* cleared and load_current_settings().  Every category of the store is
\* from now on the dict default_settings holds.
OnResetSettings ==
    /\ dlg.open
    /\ dlg.edits < MaxEdits
    /\ ~load_current_settings_raises(default_settings)
    /\ DialogFrame
    /\ settings' = default_settings
    /\ shared' = DOMAIN default_settings.d
    /\ file' = save_settings(default_settings)
    /\ UNCHANGED default_settings
    /\ LET after == OptionsAfter(dlg.ref, scan_options, default_settings,
                                 "scan_options" \in shared)
       IN  /\ scan_options' = after.options
           /\ dlg' = [dlg EXCEPT !.edits = @ + 1, !.last = "reset",
                                 !.ref = after.ref,
                                 !.widgets = load_current_settings(default_settings)]

\* dialog.run() returns: on OK and Apply save_current_settings() and
\* apply_settings(), then dialog.destroy()
CloseDialog ==
    /\ dlg.open
    /\ DialogFrame
    /\ \E response \in Responses :
          IF response = "cancel"
          THEN /\ UNCHANGED <<file, settings, default_settings, shared, scan_options>>
               /\ dlg' = [dlg EXCEPT !.open = FALSE, !.last = response]
          ELSE LET written == save_current_settings(settings, dlg.widgets)
                   seen == OptionsAfter(dlg.ref, scan_options, written, TRUE)
                   applied == apply_settings(written, seen.ref, seen.options)
               IN  /\ ~apply_settings_raises(written)
                   /\ settings' = written
                   /\ default_settings' =
                         Dict([category \in DOMAIN default_settings.d |->
                                 IF category \in shared /\ category \in DOMAIN Controls
                                 THEN written.d[category]
                                 ELSE default_settings.d[category]])
                   /\ file' = save_settings(written)
                   /\ UNCHANGED shared
                   /\ scan_options' = applied.options
                   /\ dlg' = [dlg EXCEPT !.open = FALSE, !.last = response,
                                         !.ref = applied.ref, !.accepted = TRUE,
                                         !.saved = get_category(written, "scan_options")]

DialogNext == OnSettings \/ EditControl \/ OnResetSettings \/ CloseDialog
                \/ BuildScanCommand

SpecDialog == DialogInit /\ [][DialogNext]_vars

(***************************************************************************)
(* Claims about the settings store                                         *)
(***************************************************************************)
\* The value the file gives for category.key, when it gives one.
FileHas(f, category, key) ==
    /\ LoadSucceeds(f)
    /\ category \in DOMAIN f.doc.d
    /\ f.doc.d[category].k = "object"
    /\ key \in DOMAIN f.doc.d[category].d

FileValue(f, category, key) == json_load(f.doc.d[category].d[key])

\* C1: after load_settings the settings contain every category and every
\* key of the default schema; a key present in the file has the file's
\* value and a key absent from the file has its default value.
C1_LoadHasEveryDefaultKey ==
    last.op = "load" =>
        \A category \in DOMAIN DefaultSettings.d :
            /\ category \in DOMAIN settings.d
            /\ settings.d[category].k = "dict"
            /\ \A key \in DOMAIN DefaultSettings.d[category].d :
                  /\ key \in DOMAIN settings.d[category].d
                  /\ settings.d[category].d[key] =
                        IF FileHas(file, category, key)
                        THEN FileValue(file, category, key)
                        ELSE DefaultSettings.d[category].d[key]

\* All (category, key) pairs a store holds.
StoredPairs(st) ==
    { <<c, k>> \in (DOMAIN st.d \cup Categories) \X
                   (UNION { DOMAIN st.d[c].d : c \in DOMAIN st.d } \cup Keys) : TRUE }

\* C2: after set(category, key, value) a freshly constructed store that
\* loads the same file returns that value from get(category, key), and
\* every other key has the value it had before the set.
C2_SetRoundTrip ==
    last.op = "set" =>
        LET fresh == load_settings(file) IN
        /\ get(fresh, last.cat, last.key) = Returned(last.val)
        /\ \A p \in StoredPairs(last.pre) \cup StoredPairs(fresh) :
              p # <<last.cat, last.key>> =>
                  get(fresh, p[1], p[2]) = get(last.pre, p[1], p[2])

\* C3: every set call writes the in-memory mapping and rewrites the file
\* with the serialization of the whole store: after a set call the file
\* content is the complete in-memory settings mapping.
C3_SetRewritesWholeFile ==
    last.op = "set" =>
        /\ get(settings, last.cat, last.key) = Returned(last.val)
        /\ file = JsonFile(json_dump(settings))

\* C4: a settings file that is missing, unreadable, not JSON, or JSON that
\* is not a mapping loads as exactly the default mapping.
C4_BadFileLoadsDefaults ==
    (last.op = "load" /\ ~(file.st = "json" /\ file.doc.k = "object")) =>
        settings = DefaultSettings

C4_Witness_NonMappingFile ==
    /\ last.op = "load"
    /\ file.st = "json"
    /\ file.doc.k = "array"
    /\ settings = DefaultSettings

(***************************************************************************)
(* Claims about the quarantine manager                                     *)
(***************************************************************************)
\* An entry is in quarantine while the file it moved is still at its
\* quarantine path: it has not been restored, deleted or swept.
InQuarantine(e) ==
    /\ exists(fs, e.quarantine_file)
    /\ fs[e.quarantine_file].kind = "data"
    /\ fs[e.quarantine_file].origin = e.info.original_path

\* The sidecar the code reads and writes for a quarantined file
SidecarOf(quarantine_file_path) == with_suffix(quarantine_file_path, InfoSuffix)

\* C7: after quarantine_file returned True, list_quarantined_files reports
\* the entry (original path, threat name, and the quarantine_file path at
\* which the moved file exists) until it is restored, deleted or swept.
C7_QuarantinedEntryIsListed ==
    \A e \in entries :
        InQuarantine(e) =>
            \E l \in list_quarantined_files(fs) :
                /\ l.quarantine_file = e.quarantine_file
                /\ l.info.original_path = e.info.original_path
                /\ l.info.threat_name = e.info.threat_name

\* C8: restore_file returning True leaves the file at the original path,
\* no file at the quarantine path and no sidecar of that entry; the files
\* and sidecars of the other quarantined entries are unchanged.
C8_RestoreMovesBackAndKeepsOthers ==
    (qlast.op = "restore" /\ qlast.ret) =>
        /\ exists(fs, qlast.source)
        /\ fs[qlast.source] = qlast.pre[qlast.quarantine_file]
        /\ ~exists(fs, qlast.quarantine_file)
        /\ ~exists(fs, SidecarOf(qlast.quarantine_file))
        /\ \A e \in entries :
              e.quarantine_file # qlast.quarantine_file =>
                  \A p \in {e.quarantine_file, SidecarOf(e.quarantine_file)} :
                      exists(qlast.pre, p) => (exists(fs, p) /\ fs[p] = qlast.pre[p])

RetentionDays == IntValue(get(settings, "quarantine", "retention_days").val)

\* C9: a sweep with retention_days = 0 removes the file and the sidecar of
\* every quarantined entry; a sweep with a very large retention_days
\* removes nothing.
C9_SweepZeroRemovesAllLargeRemovesNone ==
    qlast.op = "cleanup" =>
        /\ RetentionDays = 0 =>
              \A e \in entries :
                  /\ ~exists(fs, e.quarantine_file)
                  /\ ~exists(fs, SidecarOf(e.quarantine_file))
        /\ RetentionDays >= 36500 => fs = qlast.pre

\* C10: after quarantine_file returned True the sidecar of the entry
\* records the original path, the threat name, the timestamp that prefixes
\* the quarantined file's name, and the size the moved file has.
C10_SidecarRecordsEntry ==
    (qlast.op = "quarantine" /\ qlast.ret) =>
        LET sidecar == SidecarOf(qlast.quarantine_file) IN
        /\ exists(fs, qlast.quarantine_file)
        /\ exists(fs, sidecar)
        /\ fs[sidecar].kind = "info"
        /\ fs[sidecar].info.original_path = qlast.source
        /\ fs[sidecar].info.threat_name = qlast.threat
        /\ fs[sidecar].info.quarantine_date = qlast.quarantine_file.name[1]
        /\ fs[sidecar].info.file_size = fs[qlast.quarantine_file].size
        /\ fs[sidecar].info.file_size = qlast.pre[qlast.source].size

C10_Witness_SidecarWritten ==
    /\ qlast.op = "quarantine"
    /\ qlast.ret
    /\ qlast.source = SourceAT
    /\ exists(fs, SidecarOf(qlast.quarantine_file))
    /\ fs[SidecarOf(qlast.quarantine_file)].info.file_size = SizeOf(SourceAT)

(***************************************************************************)
(* Claims about the scanner wrapper                                        *)
(***************************************************************************)
\* The worker thread of scan n has been started and has not ended.
WorkerActive(n) == th[n].pc \notin {"none", "done"}

\* C5: at most one scan worker is running at any moment: two workers, each
\* with its own clamscan child alive, are never active at the same time.
C5_AtMostOneScanWorker ==
    Cardinality({ n \in Scans : WorkerActive(n) /\ proc[n].state = "running" }) <= 1

\* C6: a stop_scan call made while the scanning flag is True signals the
\* child of the scan in progress and returns with the scanning flag False
\* and no scan process recorded.
C6_StopScanStopsTheScan ==
    (ui.last.op = "stop_scan" /\ ui.last.returned /\ ui.last.scanning_at_call) =>
        /\ ui.last.terminated = ui.last.scan_at_call
        /\ ~ui.last.scanning_at_return
        /\ ui.last.process_at_return = None

\* C11: no quarantine manager operation lets a failure reach its caller;
\* quarantine_file on a source that does not exist returns False and leaves
\* the disk as it was; quarantine_file, restore_file and
\* delete_quarantined_file return True only when each of their steps has
\* taken effect.
C11_NoQuarantineFailurePropagates ==
    /\ ~qlast.raised
    /\ (qlast.op = "quarantine" /\ ~exists(qlast.pre, qlast.source)) =>
           (~qlast.ret /\ fs = qlast.pre)
    /\ (qlast.op = "quarantine" /\ qlast.ret) =>
           /\ ~exists(fs, qlast.source)
           /\ exists(fs, qlast.quarantine_file)
           /\ exists(fs, qlast.target)
    /\ (qlast.op = "restore" /\ qlast.ret) =>
           /\ exists(fs, qlast.source)
           /\ ~exists(fs, qlast.quarantine_file)
           /\ ~exists(fs, qlast.target)
    /\ (qlast.op = "delete" /\ qlast.ret) =>
           /\ ~exists(fs, qlast.quarantine_file)
           /\ ~exists(fs, qlast.target)

\* C12: a successful quarantine_file leaves the moved file in the quarantine
\* directory under <timestamp>_<original-filename>_<threat-name> and its
\* metadata in a '.info' file; restore and delete reach that sidecar from
\* the file's path, and list and the sweep reach the file from the
\* sidecar's path, by the one naming rule.
C12_OneNamingRule ==
    (qlast.op = "quarantine" /\ qlast.ret) =>
        /\ qlast.quarantine_file =
              PathOf(QuarantineDir, <<qlast.timestamp, "_">> \o qlast.source.name
                                        \o <<"_">> \o qlast.threat)
        /\ exists(fs, qlast.quarantine_file)
        /\ fs[qlast.quarantine_file].kind = "data"
        /\ exists(fs, qlast.target)
        /\ fs[qlast.target].kind = "info"
        /\ qlast.target \in glob_info(fs)
        /\ with_suffix(qlast.quarantine_file, InfoSuffix) = qlast.target
        /\ with_suffix(qlast.target, NoSuffix) = qlast.quarantine_file

\* Number of places of the list cmd that hold the argument arg
Occurrences(cmd, arg) == Cardinality({ i \in DOMAIN cmd : cmd[i] = arg })

\* C13: the list build_scan_command returns starts with 'clamscan', has for
\* each of the seven toggles exactly one flag, '=yes' when the option is
\* true and '=no' when false (absent: true for the six file types, false
\* for PUA), has the hidden-directory exclusion exactly when scan_hidden is
\* false or absent, has the two limits with the configured values (20 and
\* 15 when absent), ends with --recursive, --infected, --bell and the
\* path, and holds nothing else.
C13_ScanCommand ==
    (wlast.op = "build_scan_command") =>
        LET cmd == wlast.cmd
            o == scan_options.d
            on(key, absent) == IF key \in DOMAIN o THEN o[key] = PyTrue ELSE absent
            number(key, absent) == IF key \in DOMAIN o THEN o[key].s ELSE absent
            one_flag(name, key, absent) ==
                /\ Occurrences(cmd, name \o "=yes") = (IF on(key, absent) THEN 1 ELSE 0)
                /\ Occurrences(cmd, name \o "=no") = (IF on(key, absent) THEN 0 ELSE 1)
            hidden == IF on("scan_hidden", FALSE) THEN 0 ELSE 1
        IN  /\ cmd[1] = "clamscan"
            /\ Occurrences(cmd, "clamscan") = 1
            /\ one_flag("--scan-archive", "scan_archives", TRUE)
            /\ one_flag("--scan-pdf", "scan_pdf", TRUE)
            /\ one_flag("--scan-ole2", "scan_ole2", TRUE)
            /\ one_flag("--scan-html", "scan_html", TRUE)
            /\ one_flag("--scan-pe", "scan_pe", TRUE)
            /\ one_flag("--scan-elf", "scan_elf", TRUE)
            /\ one_flag("--detect-pua", "detect_pua", FALSE)
            /\ Occurrences(cmd, "--exclude-dir=^\\.") = hidden
            /\ Occurrences(cmd, "--max-filesize=" \o number("max_file_size", "20") \o "M") = 1
            /\ Occurrences(cmd, "--max-dir-recursion=" \o number("max_recursion", "15")) = 1
            /\ Len(cmd) = 14 + hidden
            /\ SubSeq(cmd, Len(cmd) - 3, Len(cmd)) =
                  <<"--recursive", "--infected", "--bell", wlast.path>>

\* A command has been built from options that leave some toggles out, turn
\* one off and set a limit.
C13_Witness_CommandBuilt ==
    /\ wlast.op = "build_scan_command"
    /\ "scan_pdf" \in DOMAIN scan_options.d
    /\ scan_options.d["scan_pdf"] = PyFalse
    /\ "scan_archives" \notin DOMAIN scan_options.d
    /\ "detect_pua" \notin DOMAIN scan_options.d
    /\ "scan_hidden" \in DOMAIN scan_options.d
    /\ scan_options.d["scan_hidden"] = PyTrue
    /\ "max_file_size" \in DOMAIN scan_options.d
    /\ "max_recursion" \notin DOMAIN scan_options.d

\* The lines the child of scan n has written to its stdout so far, in order
LinesWritten(n) == [i \in 1..proc[n].written |-> <<n, i>>]

\* The lines scan n's worker has handed to the progress callback, in order
LinesForwarded(n) ==
    LET progress == SelectSeq(dispatched[n], LAMBDA d : d.callback = "progress")
    IN  [i \in 1..Len(progress) |-> progress[i].output[1]]

\* C14: for a scan that is not stopped, the lines forwarded to the progress
\* callback are the lines its child has written, once each and in order;
\* the completion callback is queued after all of them, when every written
\* line has been forwarded, and its output is those lines in that order.
C14_LinesForwardedInOrder ==
    \A n \in Scans :
        n \notin ui.stopped =>
            /\ Len(LinesForwarded(n)) <= proc[n].written
            /\ LinesForwarded(n) = SubSeq(LinesWritten(n), 1, Len(LinesForwarded(n)))
            /\ \A i \in DOMAIN dispatched[n] :
                  dispatched[n][i].callback = "complete" =>
                      /\ i = Len(dispatched[n])
                      /\ LinesForwarded(n) = LinesWritten(n)
                      /\ dispatched[n][i].output = LinesWritten(n)

\* C15: the success flag a worker passes to the completion callback is true
\* exactly when its child process exited with code 0, and the callback
\* receives what that child wrote; for the scan workers (whose child was
\* launched) and for the update worker alike.
C15_SuccessIsExitCodeZero ==
    /\ \A n \in Scans : \A i \in DOMAIN dispatched[n] :
          (dispatched[n][i].callback = "complete" /\ proc[n].state # "none") =>
              /\ dispatched[n][i].success =
                    (proc[n].state = "exited" /\ proc[n].exitcode = 0)
              /\ dispatched[n][i].output = LinesWritten(n)
              /\ dispatched[n][i].stderr = n
    /\ \A i \in DOMAIN upd.dispatched :
          (upd.dispatched[i].callback = "complete" /\ upd.child # "none") =>
              /\ upd.dispatched[i].success =
                    (upd.child = "exited" /\ upd.exitcode = 0)
              /\ upd.dispatched[i].output = upd.out
              /\ upd.dispatched[i].stderr = upd.err

\* The worker of scan n has ended and never had a child: its Popen raised.
ScanLaunchFailed(n) == th[n].pc = "done" /\ proc[n].state = "none"

\* The update worker has ended and never had a child: its Popen raised.
UpdateLaunchFailed == upd.pc = "done" /\ upd.child = "none"

\* What a worker queues when the launch of its child raised
LaunchFailureCallback(stderr) ==
    [callback |-> "complete", success |-> FALSE, output |-> <<>>,
     stderr |-> stderr, error |-> "Popen"]

\* C16: a worker whose child could not be launched ends normally and has
\* queued exactly one callback: completion with success False, empty
\* output and the error text; once a scan worker has ended that way and no
\* other worker is running, the scanning flag is False and no scan process
\* is recorded, and a scan_path call that finds the flag False is accepted.
C16_LaunchFailureIsReported ==
    /\ \A n \in Scans :
          ScanLaunchFailed(n) =>
              /\ dispatched[n] = <<LaunchFailureCallback(None)>>
              /\ (\A m \in Scans : ~WorkerActive(m)) =>
                     (~scanning /\ scan_process = None)
    /\ UpdateLaunchFailed => upd.dispatched = <<LaunchFailureCallback(<<>>)>>
    /\ (ui.last.op = "scan_path" /\ ui.last.returned /\ ~ui.last.scanning_at_call)
          => ui.last.ret

\* A scan worker and an update worker have both ended on a failed launch,
\* and a scan_path call made after the failed scan has been accepted.
C16_Witness_LaunchFailed ==
    /\ ScanLaunchFailed(1)
    /\ UpdateLaunchFailed
    /\ ui.started = 2
    /\ ui.last.op = "scan_path"
    /\ ui.last.ret

\* What the claim has get return for a category and a key of the store st
StoredValue(st, category, key) ==
    IF category \in DOMAIN st.d /\ key \in DOMAIN st.d[category].d
    THEN st.d[category].d[key]
    ELSE PyNone

\* The outcome of the last call when it was a get, against the store
GetReturnsStored ==
    /\ (last.op = "get_category") =>
          /\ ~last.raised
          /\ last.val.k = "dict"
          /\ last.val = (IF last.cat \in DOMAIN settings.d
                         THEN settings.d[last.cat] ELSE EmptyDict)
    /\ (last.op = "get") =>
          /\ ~last.raised
          /\ last.val = StoredValue(settings, last.cat, last.key)

\* A step that is a get call changes neither the store nor the file
GetChangesNothing ==
    (last'.op \in {"get_category", "get"}) =>
        /\ settings' = settings
        /\ default_settings' = default_settings
        /\ file' = file

\* C17: get(category) returns the stored mapping of the category and
\* get(category, key) the stored value of the key; for a category that is
\* not stored they return an empty mapping and no value; get does not
\* raise, and changes neither the store nor the file.
C17_GetReturnsStoredValue == [](GetReturnsStored) /\ [][GetChangesNothing]_vars

\* Every key of the JSON object doc is a key of the mapping st, with the
\* value the document gives it (an object's keys and values in turn).
RECURSIVE KeepsDocument(_, _)
KeepsDocument(doc, st) ==
    \A key \in DOMAIN doc.d :
        /\ key \in DOMAIN st.d
        /\ IF doc.d[key].k = "object"
           THEN /\ st.d[key].k = "dict"
                /\ KeepsDocument(doc.d[key], st.d[key])
           ELSE json_dump(st.d[key]) = doc.d[key]

\* C18: after a load of a file that holds a JSON object, every category and
\* key of the file is in the store with its on-disk value, those the
\* default mapping does not have included.
C18_LoadKeepsFileValues ==
    (last.op = "load" /\ LoadSucceeds(file)) => KeepsDocument(file.doc, settings)

\* A file with a category and keys the defaults do not have has been
\* loaded again after a set call rewrote it.
C18_Witness_UnknownKeysLoaded ==
    /\ last.op = "load"
    /\ sets_done > 0
    /\ LoadSucceeds(file)
    /\ FileHas(file, "plugins", "custom")
    /\ FileHas(file, "scan_options", "custom")
    /\ "plugins" \notin DOMAIN DefaultSettings.d
    /\ "custom" \notin DOMAIN DefaultSettings.d["scan_options"].d

\* C19: after a confirmed 'Reset to Defaults', whatever set calls came
\* before, the in-memory settings are the hard-coded defaults, category by
\* category and key by key, and the settings file holds those defaults.
C19_ResetRestoresDefaults ==
    (last.op = "reset") =>
        /\ settings = DefaultSettings
        /\ file = JsonFile(json_dump(DefaultSettings))

\* C20: two successful quarantine_file calls on distinct source files never
\* share the quarantined file's path or the sidecar's path.
C20_QuarantineNamesAreUnique ==
    \A e1, e2 \in entries :
        (e1.info.original_path # e2.info.original_path) =>
            /\ e1.quarantine_file # e2.quarantine_file
            /\ SidecarOf(e1.quarantine_file) # SidecarOf(e2.quarantine_file)

\* The step is a scan_path call: the UI thread's record changes and shows
\* scan_path as its last call.
IsScanPathStep == ui' # ui /\ ui'.last.op = "scan_path"

\* What a scan_path step does, by the flag it finds
ScanPathGating ==
    IsScanPathStep =>
        IF scanning
        THEN /\ ~ui'.last.ret
             /\ ui'.started = ui.started
             /\ scanning' = scanning
             /\ scan_process' = scan_process
             /\ th' = th
             /\ proc' = proc
             /\ dispatched' = dispatched
        ELSE /\ ui'.last.ret
             /\ scanning' = TRUE
             /\ ui'.started = ui.started + 1
             /\ th'[ui'.started].pc = "popen"
             /\ \A n \in Scans \ {ui'.started} : th'[n] = th[n]

\* C21: scan_path called while the scanning flag is True returns False,
\* starts no worker and no child, queues no callback and leaves the flag
\* and the recorded process as they are; called while the flag is False it
\* sets the flag to True, starts one worker and returns True.
C21_ScanPathGating == [][ScanPathGating]_vars

\* A scan_path call has been turned away while the child of the first scan
\* was running.
C21_Witness_CallRejected ==
    /\ ui.last.op = "scan_path"
    /\ ui.last.scanning_at_call
    /\ ~ui.last.ret
    /\ ui.started = 1
    /\ proc[1].state = "running"

\* The entries whose moved file and sidecar are both on disk
EntriesOnDisk ==
    { e \in entries : /\ InQuarantine(e)
                      /\ exists(fs, SidecarOf(e.quarantine_file))
                      /\ fs[SidecarOf(e.quarantine_file)].kind = "info" }

\* What a retention sweep does to the entries on disk
SweepRemovesExactlyTheOld ==
    (qlast'.op = "cleanup" /\ qops' = qops + 1) =>
        \A e \in EntriesOnDisk :
            LET sidecar == SidecarOf(e.quarantine_file) IN
            IF fs[sidecar].mtime < now - RetentionDays * DayTicks
            THEN /\ ~exists(fs', e.quarantine_file)
                 /\ ~exists(fs', sidecar)
            ELSE /\ exists(fs', e.quarantine_file)
                 /\ fs'[e.quarantine_file] = fs[e.quarantine_file]
                 /\ exists(fs', sidecar)
                 /\ fs'[sidecar] = fs[sidecar]

\* C22: cleanup_old_files removes an entry exactly when its sidecar's
\* modification time is strictly earlier than the current time minus
\* retention_days: the file and the sidecar of such an entry are both
\* removed, those of every other entry are left as they were.
C22_SweepRemovesExactlyTheOld == [][SweepRemovesExactlyTheOld]_vars

\* C23: delete_quarantined_file returning True leaves neither the file nor
\* its sidecar, and the entry is not listed; the files and sidecars of the
\* other entries are as before; a call on a path whose file and sidecar are
\* both gone already returns True and changes nothing.
C23_DeleteIsIdempotent ==
    (qlast.op = "delete") =>
        LET sidecar == SidecarOf(qlast.quarantine_file) IN
        /\ qlast.ret =>
              /\ ~exists(fs, qlast.quarantine_file)
              /\ ~exists(fs, sidecar)
              /\ \A l \in list_quarantined_files(fs) :
                    l.quarantine_file # qlast.quarantine_file
              /\ \A e \in entries :
                    e.quarantine_file # qlast.quarantine_file =>
                        \A p \in {e.quarantine_file, SidecarOf(e.quarantine_file)} :
                            exists(qlast.pre, p) => (exists(fs, p) /\ fs[p] = qlast.pre[p])
        /\ (~exists(qlast.pre, qlast.quarantine_file) /\ ~exists(qlast.pre, sidecar)) =>
              (qlast.ret /\ fs = qlast.pre)

\* C24: a failed write of the settings file is not propagated: set returns
\* normally, the in-memory mapping holds the new value, and no second write
\* is made (the file is as it was, or as the failed write left it).
IsUnsavedSetStep ==
    /\ sets_done' = sets_done + 1
    /\ last'.op = "set_unsaved"

WriteFailureSwallowed ==
    /\ ~last'.raised
    /\ StoredValue(settings', last'.cat, last'.key) = last'.val
    /\ get(settings', last'.cat, last'.key) = Returned(last'.val)
    /\ file' \in {file, FileOf("garbage", NoDoc)}

C24_WriteFailureNotPropagated == [][IsUnsavedSetStep => WriteFailureSwallowed]_vars

C24_Witness_UnsavedSet ==
    /\ last.op = "set_unsaved"
    /\ ~last.raised
    /\ file # save_settings(settings)
    /\ StoredValue(settings, last.cat, last.key) = last.val
    /\ StoredValue(last.pre, last.cat, last.key) # last.val

\* C25: once the settings dialog was closed with OK or Apply, the wrapper
\* holds the scan_options category as that close saved it, and every later
\* build_scan_command builds its command from exactly those options.
IsBuildStep == wlast' # wlast

C25_AcceptedOptionsAreUsed ==
    /\ [](dlg.accepted => scan_options = dlg.saved)
    /\ [][(IsBuildStep /\ dlg.accepted) =>
            /\ wlast'.op = "build_scan_command"
            /\ wlast'.cmd = build_scan_command(dlg.saved, wlast'.path)]_vars

C25_Witness_ScanAfterAccept ==
    /\ dlg.accepted
    /\ dlg.last \in {"ok", "apply"}
    /\ wlast.op = "build_scan_command"
    /\ wlast.cmd = build_scan_command(dlg.saved, wlast.path)
    /\ wlast.cmd # build_scan_command(dlg.at_open.scan_options, wlast.path)

\* C29: closing the settings dialog with Cancel leaves the in-memory
\* settings, the settings file and the wrapper's scan options as they were
\* when the dialog was opened.
C29_CancelChangesNothing ==
    (dlg.last = "cancel") =>
        /\ settings = dlg.at_open.settings
        /\ file = dlg.at_open.file
        /\ scan_options = dlg.at_open.scan_options

\* C26: every scan_path call that returned True gets its completion
\* callback dispatched exactly once: never twice, and, the child exiting in
\* the end, once eventually, be the scan run to its end, not launched or
\* stopped; once it is dispatched the flag that scan set is no longer True.
CompletionsOf(n) ==
    Cardinality({ i \in DOMAIN dispatched[n] : dispatched[n][i].callback = "complete" })

C26_OneCompletionPerScan ==
    /\ [](\A n \in Scans : CompletionsOf(n) <= 1)
    /\ \A n \in Scans : (th[n].pc # "none") ~> (CompletionsOf(n) = 1)
    /\ [](\A n \in Scans :
            (CompletionsOf(n) = 1) => ~(scanning /\ ui.started = n))

C26_Witness_StoppedScanCompleted ==
    \E n \in Scans :
        /\ n \in ui.stopped
        /\ CompletionsOf(n) = 1
        /\ th[n].pc = "done"
        /\ \E m \in Scans : m # n /\ ScanLaunchFailed(m) /\ CompletionsOf(m) = 1

\* C27: while a scan that scan_path accepted is still running and has not
\* been stopped, the scanning flag is True and, once its child is launched,
\* the recorded scan process is that child.
RunningUnstopped(n) ==
    /\ n \notin ui.stopped
    /\ \/ th[n].pc = "popen"
       \/ proc[n].state = "running"

C27_RunningScanIsTracked ==
    \A n \in Scans :
        RunningUnstopped(n) =>
            /\ scanning
            /\ (proc[n].state = "running") => (scan_process = n)

\* C28: the hard-coded default mapping of the store is never modified after
\* load: whatever the file held and whatever set calls were made,
\* default_settings has the values it was built with.
C28_DefaultsNeverModified == default_settings = DefaultSettings

====
